---- MODULE Spec2Model ----
(***************************************************************************)
(* rakunlabs/muz: discovery of migration files (file.go), the Migrate     *)
(* orchestrator (muz.go) and the PostgresDriver (driver code, Start /     *)
(* Process / End) running against a tracking table inside one database    *)
(* transaction per run.                                                    *)
(*                                                                         *)
(* Go strings are modelled as sequences of one-character strings, so that *)
(* prefix/suffix tests, digit scanning and lexical comparison are computed *)
(* the way the code computes them.                                         *)
(***************************************************************************)
EXTENDS Integers, Sequences, FiniteSets, TLC

VARIABLES
    tree,       \* the file system under Migrate.Path (fixed during a behaviour)
    cfg,        \* the Migrate struct: Order, Skip, Extension
    pc,         \* where the call of Migrate stands
    run,        \* number of the current call of Migrate (1-based)
    dirs,       \* iterMigrationInfo: the sorted directory list (after sortDirs)
    di,         \* iterMigrationInfo: number of directories already handled
    info,       \* Migrate: the *Muzo the range loop holds
    version,    \* Process: the local high-water mark
    fi,         \* Process: number of files of info.Files already handled
    tx,         \* PostgresDriver.tx: "nil", "open", "committed", "rolledback"
    txTable,    \* the tracking table as the open transaction sees it
    txStore,    \* the executed migration contents as the open transaction sees them
    dbTable,    \* the committed tracking table
    dbStore,    \* the committed effects of executed migration files
    deferred,   \* the argument bound to the deferred driver.End call
    ret,        \* what Migrate returned (the named result err)
    endRet,     \* what driver.End returned
    start,      \* the committed table and effects when the current run began
    log,        \* the calls made during the current run, in order
    hist,       \* earlier runs: what each returned and executed
    cancelAt,   \* the context: -1 while it is live, else the number of calls
                \* the run had made when it was cancelled
    disc        \* what discovery did in the current run, in order: the
                \* directories it listed and the pairs it yielded

vars == <<tree, cfg, pc, run, dirs, di, info, version, fi, tx, txTable, txStore,
          dbTable, dbStore, deferred, ret, endRet, start, log, hist, cancelAt, disc>>

-----------------------------------------------------------------------------
(* Strings *)

\* The characters the model uses, in ASCII order.
Alphabet ==
    <<"*", ".", "/", "0", "1", "2", "3", "4", "5", "6", "7", "8", "9",
      "A", "B", "L", "Q", "S", "_", "a", "b", "c", "l", "q", "s", "x">>

Ord(c) == CHOOSE i \in 1..Len(Alphabet) : Alphabet[i] = c

IsDigit(c) == Ord(c) >= Ord("0") /\ Ord(c) <= Ord("9")

DigitVal(c) == Ord(c) - Ord("0")

\* strings.Compare: byte-wise lexical comparison, -1 / 0 / +1.
RECURSIVE Compare(_, _)
Compare(a, b) ==
    IF a = <<>> /\ b = <<>> THEN 0
    ELSE IF a = <<>> THEN -1
    ELSE IF b = <<>> THEN 1
    ELSE IF Ord(Head(a)) < Ord(Head(b)) THEN -1
    ELSE IF Ord(Head(a)) > Ord(Head(b)) THEN 1
    ELSE Compare(Tail(a), Tail(b))

HasPrefix(s, p) == Len(p) <= Len(s) /\ SubSeq(s, 1, Len(p)) = p

HasSuffix(s, p) ==
    Len(p) <= Len(s) /\ SubSeq(s, Len(s) - Len(p) + 1, Len(s)) = p

TrimPrefix(s, p) == IF HasPrefix(s, p) THEN SubSeq(s, Len(p) + 1, Len(s)) ELSE s

TrimSuffix(s, p) == IF HasSuffix(s, p) THEN SubSeq(s, 1, Len(s) - Len(p)) ELSE s

ToLowerChar(c) ==
    CASE c = "A" -> "a" [] c = "B" -> "b" [] c = "L" -> "l"
      [] c = "Q" -> "q" [] c = "S" -> "s" [] OTHER -> c

ToLower(s) == [i \in 1..Len(s) |-> ToLowerChar(s[i])]

\* filepath.Join(dir, name) for a clean dir and a base name.
Join(dir, name) == dir \o <<"/">> \o name

\* The sequence of the elements of the finite set S, ascending by the strict
\* total order lt (a set of pairs <<x, y>> meaning x sorts before y).
RECURSIVE SortSet(_, _)
SortSet(S, lt) ==
    IF S = {} THEN <<>>
    ELSE LET m == CHOOSE x \in S : \A y \in S \ {x} : <<x, y>> \in lt
         IN  <<m>> \o SortSet(S \ {m}, lt)

Range(s) == {s[i] : i \in 1..Len(s)}

-----------------------------------------------------------------------------
(* file.go: version extraction and file ordering *)

\* The maximal leading run of ASCII digits of a file name.
RECURSIVE LeadingDigits(_)
LeadingDigits(s) ==
    IF s # <<>> /\ IsDigit(Head(s)) THEN <<Head(s)>> \o LeadingDigits(Tail(s))
    ELSE <<>>

\* The largest int (64 bits), 9223372036854775807, in decimal digits.
MaxIntDigits ==
    <<"9", "2", "2", "3", "3", "7", "2", "0", "3", "6", "8", "5", "4", "7", "7", "5",
      "8", "0", "7">>

\* A digit string without its leading zeros.
RECURSIVE StripZeros(_)
StripZeros(ds) ==
    IF ds # <<>> /\ Head(ds) = "0" THEN StripZeros(Tail(ds)) ELSE ds

\* strconv.Atoi answers a digit string whose value is beyond the int range with
\* an error (and the string's length alone never makes it fail).  The value is
\* compared as a digit string: equally long digit strings compare as their
\* values do.
AtoiFails(ds) ==
    LET c == StripZeros(ds)
    IN  \/ Len(c) > Len(MaxIntDigits)
        \/ Len(c) = Len(MaxIntDigits) /\ Compare(c, MaxIntDigits) > 0

\* strconv.Atoi of a non-empty digit string within the int range.
RECURSIVE Atoi(_)
Atoi(ds) ==
    IF ds = <<>> THEN 0
    ELSE 10 * Atoi(SubSeq(ds, 1, Len(ds) - 1)) + DigitVal(ds[Len(ds)])

\* A function that answers a name without leading digit with 1.
extractLeadingNumberOrOne(filename) ==
    LET numStr == LeadingDigits(filename)
    IN  IF numStr = <<>> THEN 1
        ELSE IF AtoiFails(numStr) THEN 0
        ELSE Atoi(numStr)

\* extractLeadingNumber: the number (0 when the name has no leading digit or
\* strconv.Atoi fails); the second result of the Go function is the file name
\* itself.
extractLeadingNumber(filename) ==
    LET numStr == LeadingDigits(filename)
    IN  IF numStr = <<>> THEN 0
        ELSE IF AtoiFails(numStr) THEN 0
        ELSE Atoi(numStr)

\* A comparison of the file names alone.
FileBeforeByName(a, b) == Compare(a.Path, b.Path) < 0

\* The comparison function of sortMigrationFiles, as a strict order.
FileBefore(a, b) ==
    LET aNum == extractLeadingNumber(a.Path)
        bNum == extractLeadingNumber(b.Path)
    IN  IF aNum # bNum THEN aNum - bNum < 0
        ELSE Compare(a.Path, b.Path) < 0

\* sortMigrationFiles: slices.SortFunc over FileInfo values with distinct names.
sortMigrationFiles(files) ==
    LET S == Range(files)
    IN  SortSet(S, {p \in S \X S : FileBefore(p[1], p[2])})

-----------------------------------------------------------------------------
(* file.go: skip patterns *)

\* The segments of a path or pattern, split at "/".
RECURSIVE Split(_)
Split(s) ==
    IF \A i \in 1..Len(s) : s[i] # "/" THEN <<s>>
    ELSE LET k == CHOOSE i \in 1..Len(s) :
                      s[i] = "/" /\ \A j \in 1..(i - 1) : s[j] # "/"
         IN  <<SubSeq(s, 1, k - 1)>> \o Split(SubSeq(s, k + 1, Len(s)))

\* One path segment against one pattern segment: "*" stands for any run of
\* characters of the segment, every other character for itself.
RECURSIVE MatchSeg(_, _)
MatchSeg(p, s) ==
    IF p = <<>> THEN s = <<>>
    ELSE IF Head(p) = "*"
         THEN MatchSeg(Tail(p), s) \/ (s # <<>> /\ MatchSeg(p, Tail(s)))
         ELSE s # <<>> /\ Head(p) = Head(s) /\ MatchSeg(Tail(p), Tail(s))

\* Segment lists: a "**" segment stands for zero or more whole segments.
RECURSIVE MatchSegs(_, _)
MatchSegs(ps, ss) ==
    IF ps = <<>> THEN ss = <<>>
    ELSE IF Head(ps) = <<"*", "*">>
         THEN MatchSegs(Tail(ps), ss) \/ (ss # <<>> /\ MatchSegs(ps, Tail(ss)))
         ELSE ss # <<>> /\ MatchSeg(Head(ps), Head(ss))
                        /\ MatchSegs(Tail(ps), Tail(ss))

\* doublestar.Match(pattern, path) for patterns of literals, "*" and "**".
Match(pattern, path) == MatchSegs(Split(pattern), Split(path))

\* A test that returns after the first pattern.
shouldSkipFirstPattern(m, path) ==
    \E i \in 1..Len(m.Skip) :
        i = 1 /\ Match(TrimPrefix(m.Skip[i], <<"/">>), path)

\* shouldSkip: the path matches one of the Skip patterns.
shouldSkip(m, path) ==
    \E i \in 1..Len(m.Skip) : Match(TrimPrefix(m.Skip[i], <<"/">>), path)

\* A test that knows the "/**" form only, not the pattern equal to the path.
shouldSkipDirSubtreeForm(m, path) ==
    \E i \in 1..Len(m.Skip) :
        LET pattern == TrimPrefix(m.Skip[i], <<"/">>)
        IN  /\ HasSuffix(pattern, <<"/", "*", "*">>)
            /\ LET basePattern == TrimSuffix(pattern, <<"/", "*", "*">>)
               IN  path = basePattern \/ HasPrefix(path, basePattern \o <<"/">>)

\* shouldSkipDir: the directory and everything under it is skipped.
shouldSkipDir(m, path) ==
    \E i \in 1..Len(m.Skip) :
        LET pattern == TrimPrefix(m.Skip[i], <<"/">>)
        IN  \/ pattern = path
            \/ /\ HasSuffix(pattern, <<"/", "*", "*">>)
               /\ LET basePattern == TrimSuffix(pattern, <<"/", "*", "*">>)
                  IN  path = basePattern \/ HasPrefix(path, basePattern \o <<"/">>)

-----------------------------------------------------------------------------
(* file.go: directories *)

Root == <<".">>

\* The directory a directory of the tree lies in.
Parent(d) ==
    IF \A i \in 1..Len(d) : d[i] # "/" THEN Root
    ELSE LET k == CHOOSE i \in 1..Len(d) :
                      d[i] = "/" /\ \A j \in (i + 1)..Len(d) : d[j] # "/"
         IN  SubSeq(d, 1, k - 1)

\* The sub-directories of a directory, in fs.ReadDir's order (by name).
Children(t, path) ==
    LET S == {d \in t.dirs : d # Root /\ Parent(d) = path}
    IN  SortSet(S, {p \in S \X S : Compare(p[1], p[2]) < 0})

\* fs.WalkDir with the callback of getMigrationDirs: pre-order; a directory
\* for which shouldSkipDir holds is not entered (fs.SkipDir), one for which only
\* shouldSkip holds is entered but not collected.  The result names every
\* directory the walk entered (whose entries it listed) and whether the
\* callback appended it to dirs.
RECURSIVE Walk(_, _, _)
RECURSIVE WalkAll(_, _, _)

\* A callback that appends every directory it does not prune.
WalkKeepingEveryEntered(t, m, path) ==
    IF shouldSkipDir(m, path) THEN <<>>
    ELSE <<[path |-> path, kept |-> TRUE]>> \o WalkAll(t, m, Children(t, path))

\* A callback that answers fs.SkipDir for every directory a pattern matches.
WalkPruningEveryMatch(t, m, path) ==
    IF shouldSkipDir(m, path) \/ shouldSkip(m, path) THEN <<>>
    ELSE <<[path |-> path, kept |-> TRUE]>> \o WalkAll(t, m, Children(t, path))

Walk(t, m, path) ==
    IF shouldSkipDir(m, path) THEN <<>>
    ELSE <<[path |-> path, kept |-> ~shouldSkip(m, path)]>>
         \o WalkAll(t, m, Children(t, path))

WalkAll(t, m, ds) ==
    IF ds = <<>> THEN <<>>
    ELSE Walk(t, m, Head(ds)) \o WalkAll(t, m, Tail(ds))

\* The directories fs.WalkDir entered, in the order it entered them.
WalkDir(t, m) ==
    LET w == Walk(t, m, Root)
    IN  [i \in 1..Len(w) |-> w[i].path]

\* A walk that leaves the root itself out of its result.
getMigrationDirsBelowRoot(t, m) ==
    LET w == SelectSeq(Walk(t, m, Root), LAMBDA e : e.kept /\ e.path # Root)
    IN  [i \in 1..Len(w) |-> w[i].path]

\* getMigrationDirs, when the walk meets no file system error.
getMigrationDirs(t, m) ==
    LET w == SelectSeq(Walk(t, m, Root), LAMBDA e : e.kept)
    IN  [i \in 1..Len(w) |-> w[i].path]

\* orderMap of sortDirs: the last index at which Order names the directory
\* (0-based; -1 when Order does not name it).
OrderIndex(m, d) ==
    LET I == {i \in 1..Len(m.Order) : TrimPrefix(m.Order[i], <<"/">>) = d}
    IN  IF I = {} THEN -1 ELSE (CHOOSE i \in I : \A j \in I : j <= i) - 1

\* A comparison that answers 1 for a directory Order names against one it does
\* not name, and -1 the other way round.
DirBeforeNamedLast(m, a, b) ==
    LET aOrder == OrderIndex(m, a)
        bOrder == OrderIndex(m, b)
    IN  IF aOrder >= 0 /\ bOrder >= 0 THEN aOrder - bOrder < 0
        ELSE IF aOrder >= 0 THEN FALSE
        ELSE IF bOrder >= 0 THEN TRUE
        ELSE Compare(a, b) < 0

\* The comparison function of sortDirs, as a strict order.
DirBefore(m, a, b) ==
    LET aOrder == OrderIndex(m, a)
        bOrder == OrderIndex(m, b)
    IN  IF aOrder >= 0 /\ bOrder >= 0 THEN aOrder - bOrder < 0
        ELSE IF aOrder >= 0 THEN TRUE
        ELSE IF bOrder >= 0 THEN FALSE
        ELSE Compare(a, b) < 0

\* sortDirs: slices.Sort when Order is empty, else slices.SortFunc.
sortDirs(m, ds) ==
    LET S == Range(ds)
    IN  IF Len(m.Order) = 0
        THEN SortSet(S, {p \in S \X S : Compare(p[1], p[2]) < 0})
        ELSE SortSet(S, {p \in S \X S : DirBefore(m, p[1], p[2])})

-----------------------------------------------------------------------------
(* file.go: the files of one directory *)

\* The last segment of a path: the name of the entry in its directory.
Base(path) == LET segs == Split(path) IN segs[Len(segs)]

\* The entries of a directory, files and sub-directories, in fs.ReadDir's order
\* (by name).
ReadDir(t, dir) ==
    LET S == {[name |-> f, isDir |-> FALSE] : f \in t.files[dir]}
             \cup {[name |-> Base(d), isDir |-> TRUE] :
                       d \in {x \in t.dirs : x # Root /\ Parent(x) = dir}}
    IN  SortSet(S, {p \in S \X S : Compare(p[1].name, p[2].name) < 0})

\* A filter that does not look at whether the entry is a directory.
KeepFileOrDir(m, dir, entry) ==
    LET name == entry.name
        fullPath == IF dir # Root THEN Join(dir, name) ELSE name
    IN  /\ ~shouldSkip(m, fullPath)
        /\ ~(m.Extension # <<>> /\ ~HasSuffix(ToLower(name), ToLower(m.Extension)))
        /\ extractLeadingNumber(name) > 0

\* The filter of getMigrationFiles' loop for one entry.
KeepFile(m, dir, entry) ==
    LET name == entry.name
        fullPath == IF dir # Root THEN Join(dir, name) ELSE name
    IN  /\ ~entry.isDir
        /\ ~shouldSkip(m, fullPath)
        /\ ~(m.Extension # <<>> /\ ~HasSuffix(ToLower(name), ToLower(m.Extension)))
        /\ extractLeadingNumber(name) > 0

\* getMigrationFiles, when fs.ReadDir succeeds.
getMigrationFiles(t, m, dir) ==
    LET kept == SelectSeq(ReadDir(t, dir), LAMBDA entry : KeepFile(m, dir, entry))
    IN  sortMigrationFiles(
            [i \in 1..Len(kept) |->
                [Path |-> kept[i].name,
                 Version |-> extractLeadingNumber(kept[i].name)]])

-----------------------------------------------------------------------------
(* Errors, tracking records, the call log *)

\* An error value: what failed and the file path its message carries;
\* NoErr is Go's nil error.
Err(kind, path) == [kind |-> kind, path |-> path]

NoErr == Err("nil", <<>>)

\* A row of the tracking table (processed_at is left out: nothing reads it).
Record(v, dir, name) == [version |-> v, directory |-> dir, file_name |-> name]

\* One call made during a run, with the error it was given or returned.
Ev(op, dir, path, err) == [op |-> op, dir |-> dir, path |-> path, err |-> err]

NoInfo == [Dir |-> <<>>, Files |-> <<>>]

\* Steps of discovery: fs.WalkDir listed the entries of a directory;
\* getMigrationFiles listed them with fs.ReadDir; the iterator yielded
\* (info, err), info being nil (NoInfo) when err is not; the consumer of
\* SpecDiscover answered a yield with false.
Listed(dir) == [op |-> "List", info |-> [Dir |-> dir, Files |-> <<>>], err |-> NoErr]

Scanned(dir) == [op |-> "Scan", info |-> [Dir |-> dir, Files |-> <<>>], err |-> NoErr]

Yielded(i, e) == [op |-> "Yield", info |-> i, err |-> e]

Stopped == [op |-> "Stop", info |-> NoInfo, err |-> NoErr]

\* The listings of a walk over the given directories.
Listings(ds) == [i \in 1..Len(ds) |-> Listed(ds[i])]

\* A query that leaves out WHERE directory = $1.
MaxVersionOfAnyDirectory(table, dir) ==
    LET V == {r.version : r \in table}
    IN  IF V = {} THEN 0 ELSE CHOOSE v \in V : \A w \in V : w <= v

\* SELECT MAX(version) FROM table WHERE directory = dir, with NULL read as 0.
MaxVersion(table, dir) ==
    LET V == {r.version : r \in {x \in table : x.directory = dir}}
    IN  IF V = {} THEN 0 ELSE CHOOSE v \in V : \A w \in V : w <= v

\* UNIQUE(version, directory): the table has a row with this key.
HasKey(table, v, dir) == \E r \in table : r.version = v /\ r.directory = dir

-----------------------------------------------------------------------------
(* The file trees, configurations and tracking tables the runs start from *)

\* How many times Migrate is called in a behaviour.
MaxRuns == 2

DirA == <<"a">>
DirB == <<"b">>
DirAC == <<"a", "/", "c">>

F1a == <<"1", "_", "a">>
F01b == <<"0", "1", "_", "b">>
F2b == <<"2", "_", "b">>
F3a == <<"3", "_", "a">>
F10c == <<"1", "0", "_", "c">>
Fx == <<"x">>

Default == [Order |-> <<>>, Skip |-> <<>>, Extension |-> <<>>]

\* migrations/1_a, migrations/2_b against an empty target.
Flat ==
    [tree |-> [dirs |-> {Root}, files |-> (Root :> {F1a, F2b})],
     cfg |-> Default,
     table |-> {}, store |-> <<>>]

\* Two files of directory b share version 1; b is put first by Order.
Shared ==
    [tree |-> [dirs |-> {Root, DirA, DirB},
               files |-> (Root :> {Fx}) @@ (DirA :> {F1a, F10c})
                         @@ (DirB :> {F1a, F01b, F2b})],
     cfg |-> [Order |-> <<DirB>>, Skip |-> <<>>, Extension |-> <<>>],
     table |-> {}, store |-> <<>>]

\* Directory a already has version 2 recorded by an earlier run; 1_a was added
\* to the tree afterwards; a/c is skipped.
Behind ==
    [tree |-> [dirs |-> {Root, DirA, DirAC},
               files |-> (Root :> {}) @@ (DirA :> {F1a, F2b, F3a})
                         @@ (DirAC :> {F1a})],
     cfg |-> [Order |-> <<>>, Skip |-> << <<"/">> \o DirAC >>, Extension |-> <<>>],
     table |-> {Record(2, DirA, F2b)}, store |-> << <<DirA, F2b>> >>]

Scenarios == {Flat, Shared, Behind}

Init ==
    \E sc \in Scenarios :
        /\ tree = sc.tree
        /\ cfg = sc.cfg
        /\ dbTable = sc.table
        /\ dbStore = sc.store
        /\ pc = "idle"
        /\ run = 1
        /\ dirs = <<>>
        /\ di = 0
        /\ info = NoInfo
        /\ version = 0
        /\ fi = 0
        /\ tx = "nil"
        /\ txTable = {}
        /\ txStore = <<>>
        /\ deferred = NoErr
        /\ ret = NoErr
        /\ endRet = NoErr
        /\ start = [table |-> sc.table, store |-> sc.store]
        /\ log = <<>>
        /\ hist = <<>>
        /\ cancelAt = -1
        /\ disc = <<>>

-----------------------------------------------------------------------------
(* muz.go: Migrate, with the driver calls it makes *)

\* A Migrate that goes on to the range loop although driver.Start failed.
AfterStartErrorIgnored == "walk"

\* Where Migrate goes when driver.Start returned an error: `return err` before
\* anything is deferred.
AfterStartError == "returned"

\* A Migrate that calls driver.End only at the end of a run without error, as
\* a call placed after the loop instead of a deferred one would.
AfterReturnEndOnSuccess(err) == IF err # NoErr THEN "returned" ELSE "end"

\* Where Migrate goes at a return statement after the defer: the deferred
\* driver.End call runs first.
AfterReturn(err) == "end"

\* The value bound to the deferred call's parameter: the arguments of a deferred
\* call are evaluated when the defer statement executes, and the named result
\* err has not been assigned by then.
DeferredArg(result) == result

\* `return e` inside the range loop: the named result is set, the iterator is
\* abandoned (yield returns false) and the deferred call is next.
ReturnFromLoop(e) ==
    /\ ret' = e
    /\ pc' = AfterReturn(e)

\* The context handed to Migrate is not cancelled.  database/sql answers every
\* call made with a cancelled context, and Commit on a transaction begun with
\* one, with the context's error.
CtxLive == cancelAt < 0

\* Migrate is entered and calls driver.Start: BeginTx, then CREATE TABLE IF
\* NOT EXISTS through the new transaction.
MigrateStart ==
    /\ pc = "idle"
    /\ \E outcome \in {"ok", "begin", "create"} :
        /\ outcome # "begin" => CtxLive
        /\ LET e == IF outcome = "ok" THEN NoErr ELSE Err(outcome, <<>>)
           IN  /\ tx' = IF outcome = "begin" THEN "nil" ELSE "open"
               /\ txTable' = IF outcome = "begin" THEN {} ELSE dbTable
               /\ txStore' = IF outcome = "begin" THEN <<>> ELSE dbStore
               /\ log' = Append(log, Ev("Start", <<>>, <<>>, e))
               /\ start' = [table |-> dbTable, store |-> dbStore]
               /\ IF e # NoErr
                  THEN /\ ret' = e
                       /\ pc' = AfterStartError
                       /\ UNCHANGED deferred
                  ELSE /\ deferred' = DeferredArg(ret)
                       /\ pc' = "walk"
                       /\ UNCHANGED ret
    /\ UNCHANGED <<cancelAt, disc, tree, cfg, run, dirs, di, info, version, fi, dbTable, dbStore,
                   endRet, hist>>

\* The range loop starts the iterator: fs.Sub, getMigrationDirs and sortDirs run
\* before the first directory is listed.  An error here is yielded and the
\* iterator returns.
IterStart ==
    /\ pc = "walk"
    /\ \E outcome \in {"ok", "sub", "walk"} :
        IF outcome = "ok"
        THEN /\ dirs' = sortDirs(cfg, getMigrationDirs(tree, cfg))
             /\ di' = 0
             /\ disc' = disc \o Listings(WalkDir(tree, cfg))
             /\ pc' = "next"
             /\ UNCHANGED <<ret, log>>
        ELSE /\ log' = Append(log, Ev("Yield", <<>>, <<>>, Err(outcome, <<>>)))
             /\ disc' = Append(disc, Yielded(NoInfo, Err(outcome, <<>>)))
             /\ ReturnFromLoop(Err(outcome, <<>>))
             /\ UNCHANGED <<dirs, di>>
    /\ UNCHANGED <<cancelAt, tree, cfg, run, info, version, fi, tx, txTable, txStore,
                   dbTable, dbStore, deferred, endRet, start, hist>>

\* A loop over dirs that runs from the far end.
NextDirFromEnd(ds, i) == ds[Len(ds) - i]

\* The element the loop over the sorted dirs takes after i turns.
NextDir(ds, i) == ds[i + 1]

\* One turn of the iterator's loop over dirs, and what the range loop's body
\* does with the element up to the call of driver.Process; when dirs is used up
\* the loop ends and Migrate returns nil.
IterNext ==
    /\ pc = "next"
    /\ IF di = Len(dirs)
       THEN /\ ReturnFromLoop(NoErr)
            /\ UNCHANGED <<di, info, log, disc>>
       ELSE LET dir == NextDir(dirs, di)
            IN  \E listed \in BOOLEAN :
                    IF listed
                    THEN /\ info' = [Dir |-> dir,
                                     Files |-> getMigrationFiles(tree, cfg, dir)]
                         /\ di' = di + 1
                         /\ log' = Append(log, Ev("Yield", dir, <<>>, NoErr))
                         /\ disc' = disc \o <<Scanned(dir), Yielded(info', NoErr)>>
                         /\ pc' = "process"
                         /\ UNCHANGED ret
                    ELSE /\ log' = Append(log,
                                 Ev("Yield", <<>>, <<>>, Err("readdir", dir)))
                         /\ disc' = Append(disc,
                                  Yielded(NoInfo, Err("readdir", dir)))
                         /\ ReturnFromLoop(Err("readdir", dir))
                         /\ UNCHANGED <<di, info>>
    /\ UNCHANGED <<cancelAt, tree, cfg, run, dirs, version, fi, tx, txTable, txStore,
                   dbTable, dbStore, deferred, endRet, start, hist>>

-----------------------------------------------------------------------------
(* PostgresDriver.Process *)

\* Muzo.ReadFile opens filepath.Join(d.Dir, filePath).
ReadPath(dir, name) == IF dir = Root THEN name ELSE Join(dir, name)

\* A test that lets a file at the high-water mark through.
AlreadyAppliedStrict(file, v) == file.Version < v

\* The test at the top of Process' loop: the file counts as applied.
AlreadyApplied(file, v) == file.Version <= v

\* A range loop that notes the error of driver.Process and goes on with the
\* next set.
ProcessFailedGoesOn(e) ==
    /\ ret' = e
    /\ pc' = "next"

\* Where Migrate goes when driver.Process returned an error.
ProcessFailed(e) == ReturnFromLoop(e)

\* Process is called with the yielded set and reads the directory's latest
\* recorded version through the transaction.
ProcessQuery ==
    /\ pc = "process"
    /\ \E scanned \in {TRUE, FALSE} \ (IF CtxLive THEN {} ELSE {TRUE}) :
        IF scanned
        THEN /\ version' = MaxVersion(txTable, info.Dir)
             /\ fi' = 0
             /\ log' = Append(log, Ev("Process", info.Dir, <<>>, NoErr))
             /\ pc' = "files"
             /\ UNCHANGED ret
        ELSE /\ log' = log \o <<Ev("Process", info.Dir, <<>>, NoErr),
                                Ev("ProcessRet", info.Dir, <<>>, Err("scan", <<>>))>>
             /\ ProcessFailed(Err("scan", <<>>))
             /\ UNCHANGED <<version, fi>>
    /\ UNCHANGED <<cancelAt, disc, tree, cfg, run, dirs, di, info, tx, txTable, txStore, dbTable,
                   dbStore, deferred, endRet, start, hist>>

\* One turn of Process' loop over data.Files: the file is passed over, or read,
\* executed and recorded; the first failure makes Process return.
ProcessFile ==
    /\ pc = "files"
    /\ fi < Len(info.Files)
    /\ LET file == info.Files[fi + 1]
           dir == info.Dir
       IN  IF AlreadyApplied(file, version)
           THEN /\ fi' = fi + 1
                /\ UNCHANGED <<pc, ret, version, txTable, txStore, log>>
           ELSE \E outcome \in {"ok", "read", "exec", "insert"} :
                /\ outcome = "ok" => ~HasKey(txTable, file.Version, dir)
                /\ outcome \in {"ok", "insert"} => CtxLive
                /\ IF outcome = "ok"
                   THEN /\ txStore' = Append(txStore, <<dir, file.Path>>)
                        /\ txTable' = txTable \cup {Record(file.Version, dir, file.Path)}
                        /\ version' = file.Version
                        /\ fi' = fi + 1
                        /\ log' = log \o <<Ev("Exec", dir, file.Path, NoErr),
                                           Ev("Insert", dir, file.Path, NoErr)>>
                        /\ UNCHANGED <<pc, ret>>
                   ELSE LET e == CASE outcome = "read" ->
                                          Err("readfile", ReadPath(dir, file.Path))
                                   [] outcome = "exec" ->
                                          Err("applying migration", file.Path)
                                   [] outcome = "insert" -> Err("insert", <<>>)
                            calls ==
                                CASE outcome = "read" ->
                                         <<Ev("ReadFile", dir, file.Path, e)>>
                                  [] outcome = "exec" ->
                                         <<Ev("Exec", dir, file.Path, e)>>
                                  [] outcome = "insert" ->
                                         <<Ev("Exec", dir, file.Path, NoErr),
                                           Ev("Insert", dir, file.Path, e)>>
                        IN  /\ txStore' = IF outcome = "insert"
                                          THEN Append(txStore, <<dir, file.Path>>)
                                          ELSE txStore
                            /\ log' = log \o calls \o <<Ev("ProcessRet", dir, <<>>, e)>>
                            /\ ProcessFailed(e)
                            /\ UNCHANGED <<txTable, version, fi>>
    /\ UNCHANGED <<cancelAt, disc, tree, cfg, run, dirs, di, info, tx, dbTable, dbStore, deferred,
                   endRet, start, hist>>

\* Process' loop is through: Process returns nil and the range loop asks the
\* iterator for the next element.
ProcessReturn ==
    /\ pc = "files"
    /\ fi = Len(info.Files)
    /\ log' = Append(log, Ev("ProcessRet", info.Dir, <<>>, NoErr))
    /\ pc' = "next"
    /\ UNCHANGED <<cancelAt, disc, tree, cfg, run, dirs, di, info, version, fi, tx, txTable,
                   txStore, dbTable, dbStore, deferred, ret, endRet, start, hist>>

-----------------------------------------------------------------------------
(* PostgresDriver.End, run as Migrate's deferred call *)

\* PostgresDriver.End picks Rollback for a non-nil error, else Commit.
EndCall(err) == IF err # NoErr THEN "Rollback" ELSE "Commit"

\* What Migrate returns once the deferred call is through: the result of a
\* deferred call is discarded, the named result stands.
ResultAfterEnd(result, endResult) == result

\* The deferred driver.End(ctx, err) runs with the argument bound at the defer
\* statement; then Migrate returns.  A Commit that succeeds makes the
\* transaction's view the committed one; a failed Commit and a Rollback leave
\* the committed state as it was.  Whether Commit succeeds is the database's
\* choice (a server that gave up the transaction at a failed statement answers
\* Commit with a failure; a statement that failed before it reached the server
\* leaves the transaction fit to commit).
MigrateEnd ==
    /\ pc = "end"
    /\ \E ok \in {TRUE, FALSE} \ (IF CtxLive THEN {} ELSE {TRUE}) :
        LET call == EndCall(deferred)
            r == IF tx = "nil" \/ ok THEN NoErr ELSE Err(call, <<>>)
        IN  /\ endRet' = r
            /\ tx' = IF tx = "nil" THEN "nil" ELSE "done"
            /\ dbTable' = IF tx # "nil" /\ call = "Commit" /\ ok
                          THEN txTable ELSE dbTable
            /\ dbStore' = IF tx # "nil" /\ call = "Commit" /\ ok
                          THEN txStore ELSE dbStore
            /\ log' = log \o <<Ev("End", <<>>, <<>>, deferred)>>
                          \o (IF tx = "nil" THEN <<>>
                              ELSE <<Ev(call, <<>>, <<>>, r)>>)
            /\ ret' = ResultAfterEnd(ret, r)
    /\ pc' = "returned"
    /\ UNCHANGED <<cancelAt, disc, tree, cfg, run, dirs, di, info, version, fi, txTable, txStore,
                   deferred, start, hist>>

\* Migrate is called again, with the same driver, tree and configuration.
MigrateAgain ==
    /\ pc = "returned"
    /\ run < MaxRuns
    /\ hist' = Append(hist, [ret |-> ret, endRet |-> endRet, log |-> log])
    /\ run' = run + 1
    /\ pc' = "idle"
    /\ dirs' = <<>>
    /\ di' = 0
    /\ info' = NoInfo
    /\ version' = 0
    /\ fi' = 0
    /\ deferred' = NoErr
    /\ ret' = NoErr
    /\ endRet' = NoErr
    /\ log' = <<>>
    /\ cancelAt' = -1
    /\ disc' = <<>>
    /\ UNCHANGED <<tree, cfg, tx, txTable, txStore, dbTable, dbStore, start>>

Next ==
    \/ MigrateStart
    \/ IterStart
    \/ IterNext
    \/ ProcessQuery
    \/ ProcessFile
    \/ ProcessReturn
    \/ MigrateEnd
    \/ MigrateAgain

Spec == Init /\ [][Next]_vars

\* The caller cancels the context handed to Migrate, at any moment up to
\* Migrate's return.
Cancel ==
    /\ pc # "returned"
    /\ CtxLive
    /\ cancelAt' = Len(log)
    /\ UNCHANGED <<tree, cfg, pc, run, dirs, di, info, version, fi, tx, txTable,
                   txStore, dbTable, dbStore, deferred, ret, endRet, start, log,
                   hist, disc>>

NextCancel ==
    \/ Next
    \/ Cancel

\* Migrate run with a context its caller may cancel.
SpecCancel == Init /\ [][NextCancel]_vars

-----------------------------------------------------------------------------
(* file.go: the discovery sequence over any tree and configuration, consumed
   by a range loop that may stop at any element *)

\* The longest Skip list a configuration is drawn with.
MaxSkip == 2

DirACB == <<"a", "/", "c", "/", "b">>
Dir3s == <<"3", ".", "s">>

F0a == <<"0", "_", "a">>
F0s == <<"0", ".", "s">>
F007b == <<"0", "0", "7", "_", "b">>
F1S == <<"1", "_", "a", ".", "S">>
F2s == <<"2", "_", "b", ".", "s">>
FHuge == [i \in 1..20 |-> "9"] \o <<"_", "a">>

\* Three levels of directories, with files of the same name at several levels.
Deep ==
    [dirs |-> {Root, DirA, DirB, DirAC, DirACB},
     files |-> (Root :> {F1a, Fx}) @@ (DirA :> {F1a, F2b}) @@ (DirB :> {F2b})
               @@ (DirAC :> {F1a}) @@ (DirACB :> {F1a, F3a})]

\* File names with and without leading digits, with leading zeros, with a
\* digit run of value 0, with one beyond the int range, with extensions in
\* either case; a directory named like a migration file.
Names ==
    [dirs |-> {Root, Dir3s},
     files |-> (Root :> {F10c, F2b, F01b, F1a, F0a, F007b, Fx, FHuge})
               @@ (Dir3s :> {F1S, F2s, F3a, F0s})]

\* A root without files and a directory without files.
Bare ==
    [dirs |-> {Root, DirA, DirB},
     files |-> (Root :> {}) @@ (DirA :> {F1a}) @@ (DirB :> {})]

Trees == {Deep, Names, Bare}

\* Skip patterns: a directory path, a subtree, the direct children of a
\* directory, any single name, the root, a file name at any depth, a
\* directory name one level down.
Patterns ==
    {DirAC,
     <<"/", "a", "/", "*", "*">>,
     <<"a", "/", "*">>,
     <<"*">>,
     Root,
     <<"*", "*", "/">> \o F1a,
     <<"*", "/", "c">>}

\* Order lists: none, one name, names with a leading "/", a name listed twice,
\* a name no directory has.
Orders ==
    {<<>>,
     <<DirB>>,
     <<<<"/">> \o DirAC, <<"/">> \o DirB>>,
     <<DirA, DirB, DirA>>,
     <<Fx, DirB, Root>>}

Extensions == {<<>>, <<".", "S">>}

Configs ==
    {[Order |-> o, Skip |-> k, Extension |-> e] :
        o \in Orders,
        k \in UNION {[1..n -> Patterns] : n \in 0..MaxSkip},
        e \in Extensions}

DiscoverInit ==
    /\ tree \in Trees
    /\ cfg \in Configs
    /\ pc = "walk"
    /\ run = 1
    /\ dirs = <<>>
    /\ di = 0
    /\ info = NoInfo
    /\ version = 0
    /\ fi = 0
    /\ tx = "nil"
    /\ txTable = {}
    /\ txStore = <<>>
    /\ dbTable = {}
    /\ dbStore = <<>>
    /\ deferred = NoErr
    /\ ret = NoErr
    /\ endRet = NoErr
    /\ start = [table |-> {}, store |-> <<>>]
    /\ log = <<>>
    /\ hist = <<>>
    /\ cancelAt = -1
    /\ disc = <<>>

\* The iterator up to its loop: fs.Sub, getMigrationDirs, sortDirs.  An error
\* is yielded and the iterator returns.
DiscoverStart ==
    /\ pc = "walk"
    /\ \E outcome \in {"ok", "sub", "walk"} :
        IF outcome = "ok"
        THEN /\ dirs' = sortDirs(cfg, getMigrationDirs(tree, cfg))
             /\ disc' = disc \o Listings(WalkDir(tree, cfg))
             /\ pc' = "list"
        ELSE /\ disc' = Append(disc, Yielded(NoInfo, Err(outcome, <<>>)))
             /\ pc' = "stopped"
             /\ UNCHANGED dirs
    /\ UNCHANGED <<tree, cfg, run, di, info, version, fi, tx, txTable, txStore,
                   dbTable, dbStore, deferred, ret, endRet, start, log, hist,
                   cancelAt>>

\* An iterator that does not look at what yield returned.
AfterYieldGoesOn(goOn) == "list"

\* Where the iterator goes after a yield in its loop: on to the next
\* directory when yield returned true, else it returns.
AfterYield(goOn) == IF goOn THEN "list" ELSE "stopped"

\* One turn of the iterator's loop: the directory's files are listed and the
\* set is yielded, or the listing fails and the error is yielded; the consumer
\* answers the yield by going on or by stopping.  After the last directory
\* the iterator returns.
DiscoverNext ==
    /\ pc = "list"
    /\ IF di = Len(dirs)
       THEN /\ pc' = "done"
            /\ UNCHANGED <<di, disc>>
       ELSE LET dir == NextDir(dirs, di)
            IN  \E listed \in BOOLEAN, goOn \in BOOLEAN :
                    /\ disc' =
                           (IF listed
                            THEN disc \o
                                 <<Scanned(dir),
                                   Yielded([Dir |-> dir,
                                            Files |-> getMigrationFiles(tree, cfg, dir)],
                                           NoErr)>>
                            ELSE Append(disc, Yielded(NoInfo, Err("readdir", dir))))
                           \o (IF goOn THEN <<>> ELSE <<Stopped>>)
                    /\ di' = di + 1
                    /\ pc' = AfterYield(goOn)
    /\ UNCHANGED <<tree, cfg, run, dirs, info, version, fi, tx, txTable, txStore,
                   dbTable, dbStore, deferred, ret, endRet, start, log, hist,
                   cancelAt>>

NextDiscover ==
    \/ DiscoverStart
    \/ DiscoverNext

SpecDiscover == DiscoverInit /\ [][NextDiscover]_vars

-----------------------------------------------------------------------------
(* What the claims speak about, read off the call log of the current run *)

\* The positions of the log holding a call of one of the given kinds.
Calls(ops) == {i \in 1..Len(log) : log[i].op \in ops}

\* The positions at which discovery yielded an error or Process returned one.
Failures == {i \in Calls({"Yield", "ProcessRet"}) : log[i].err # NoErr}

\* The error that stopped the run: the first discovery or Process error.
StopErr ==
    IF Failures = {} THEN NoErr
    ELSE log[CHOOSE i \in Failures : \A j \in Failures : i <= j].err

\* The highest version a table records for a directory, 0 if it records none.
RecordedMax(table, dir) ==
    LET rows == {r \in table : r.directory = dir}
    IN  IF rows = {} THEN 0
        ELSE (CHOOSE r \in rows : \A q \in rows : q.version <= r.version).version

\* driver.Start was called in this run and returned nil.
Started == log # <<>> /\ log[1].op = "Start" /\ log[1].err = NoErr

-----------------------------------------------------------------------------
(* C1 *)

\* C1: when a discovery error or a Process error stops Migrate, driver.End is
\* called with exactly that error and Migrate returns it; End is called with
\* nil only when no discovery step and no Process call failed.
C1_EndReceivesStopError ==
    /\ \A i \in Calls({"End"}) : log[i].err = StopErr
    /\ (pc = "returned" /\ Started) => ret = StopErr

-----------------------------------------------------------------------------
(* C2 *)

\* A file execution or a record write failed in this run.
ApplyFailed == \E i \in Calls({"Exec", "Insert"}) : log[i].err # NoErr

\* C2: if a file execution or a record write fails during Migrate, then once
\* Migrate has returned the committed store and tracking table are what they
\* were when the run began: nothing the run did was committed.
C2_FailedRunLeavesNothing ==
    (pc = "returned" /\ ApplyFailed) =>
        /\ dbTable = start.table
        /\ dbStore = start.store

-----------------------------------------------------------------------------
(* C3 *)

\* C3: in a run in which driver.Start succeeded, driver.End is called exactly
\* once by the time Migrate returns, never more than once before, every Process
\* call (and every file it reads, executes or records) comes before it, and a
\* run whose Start failed calls it not at all.
C3_EndExactlyOnceAndLast ==
    /\ Cardinality(Calls({"End"})) <= 1
    /\ (pc = "returned" /\ Started) => Cardinality(Calls({"End"})) = 1
    /\ ~Started => Calls({"End"}) = {}
    /\ \A i \in Calls({"End"}) :
           \A j \in Calls({"Process", "ProcessRet", "ReadFile", "Exec", "Insert",
                           "Yield"}) : j < i

\* C3 witness: Migrate has returned from a run stopped by a failing Process
\* call that came after an earlier, successful one, and End was called.
C3_Witness ==
    /\ pc = "returned"
    /\ Calls({"End"}) # {}
    /\ \E i \in Calls({"ProcessRet"}) : log[i].err # NoErr
    /\ \E i \in Calls({"ProcessRet"}) : log[i].err = NoErr

-----------------------------------------------------------------------------
(* C4 *)

\* No discovery step and no Process call of this run failed.
AllSucceeded == Started /\ Failures = {}

\* C4: when Start and every Process call succeed, Migrate returns what
\* driver.End(nil) returned; a failed commit makes Migrate return an error.
C4_ReturnsEndResult ==
    (pc = "returned" /\ AllSucceeded) => ret = endRet

-----------------------------------------------------------------------------
(* C5 *)

\* C5: if driver.Start returns an error, Migrate returns that error, no
\* discovery takes place (no directory list is built, nothing is yielded) and
\* neither driver.Process nor driver.End is called.
C5_StartErrorStopsRun ==
    (log # <<>> /\ log[1].op = "Start" /\ log[1].err # NoErr) =>
        /\ pc = "returned"
        /\ ret = log[1].err
        /\ Len(log) = 1
        /\ dirs = <<>>
        /\ info = NoInfo

\* C5 witness: Migrate has returned the error of a Start whose CREATE TABLE
\* failed inside the transaction it had begun.
C5_Witness ==
    /\ pc = "returned"
    /\ log # <<>> /\ log[1].op = "Start" /\ log[1].err = Err("create", <<>>)
    /\ ret = Err("create", <<>>)
    /\ tx = "open"

-----------------------------------------------------------------------------
(* C6 *)

\* BeginTx succeeded in this run's Start.
TxBegun == log # <<>> /\ log[1].op = "Start" /\ log[1].err.kind # "begin"

\* C6: whenever Migrate returns from a run whose Start began a transaction,
\* that transaction is finished and Commit or Rollback was called exactly once.
C6_TransactionFinishedOnReturn ==
    (pc = "returned" /\ TxBegun) =>
        /\ tx = "done"
        /\ Cardinality(Calls({"Commit", "Rollback"})) = 1

-----------------------------------------------------------------------------
(* C7 *)

\* C7: a run that follows a run that returned nil, over the same tree and
\* table, executes no file and writes no record; and over all runs the
\* committed effects hold each (directory, file) at most once.
C7_RerunAppliesNothing ==
    /\ (run > 1 /\ hist[run - 1].ret = NoErr) => Calls({"Exec", "Insert"}) = {}
    /\ \A i, j \in 1..Len(dbStore) : dbStore[i] = dbStore[j] => i = j

-----------------------------------------------------------------------------
(* C8 *)

\* The files discovery yields for a directory.
Files(dir) == getMigrationFiles(tree, cfg, dir)

\* The files of a directory that are due in this run: above the version
\* recorded for the directory when the run began, and the first of the set's
\* files to carry their version.
Due(dir) ==
    LET fs == Files(dir)
    IN  {fs[k] : k \in {n \in 1..Len(fs) :
                          /\ fs[n].Version > RecordedMax(start.table, dir)
                          /\ \A j \in 1..(n - 1) : fs[j].Version # fs[n].Version}}

DueRecords == UNION {{Record(f.Version, d, f.Path) : f \in Due(d)} : d \in Range(dirs)}

DueFiles == UNION {{<<d, f.Path>> : f \in Due(d)} : d \in Range(dirs)}

AllFiles == UNION {{<<d, f.Path>> : f \in Range(Files(d))} : d \in Range(dirs)}

\* The run returned nil after a successful Start.
ReturnedNil == pc = "returned" /\ Started /\ ret = NoErr

-----------------------------------------------------------------------------
(* C9 *)

\* UNIQUE(version, directory) holds of a table.
UniqueKeys(table) ==
    \A r1, r2 \in table :
        (r1.version = r2.version /\ r1.directory = r2.directory) => r1 = r2

\* While Process loops, its mark is the directory's maximum recorded version
\* as the transaction sees it (0 if none).
C9_Mark == pc = "files" => version = RecordedMax(txTable, info.Dir)

\* One turn of Process' loop: the file is read and executed iff its version is
\* above the directory's recorded maximum; if that goes through, its record is
\* added and the mark becomes its version; a record is only ever added above
\* every recorded version of its directory.
C9_Turn ==
    (pc = "files" /\ fi < Len(info.Files)) =>
        LET f == info.Files[fi + 1]
            mark == RecordedMax(txTable, info.Dir)
        IN  /\ (f.Version > mark) <=> (Len(log') > Len(log))
            /\ (f.Version > mark /\ pc' = "files") =>
                   /\ txTable' = txTable \cup {Record(f.Version, info.Dir, f.Path)}
                   /\ txStore' = Append(txStore, <<info.Dir, f.Path>>)
                   /\ version' = f.Version
            /\ (f.Version <= mark) => UNCHANGED <<txTable, txStore, version>>
            /\ \A r \in txTable' \ txTable :
                   r.directory = info.Dir /\ r.version > mark

\* C9: Process executes and records a file iff its version is strictly above
\* the high-water mark, the mark being the directory's maximum recorded
\* version (0 if none) raised to each file's version once it is recorded; no
\* record is written at or below a recorded version of its directory and the
\* table stays unique on (version, directory).
C9_HighWaterMark ==
    /\ [](C9_Mark /\ UniqueKeys(txTable) /\ UniqueKeys(dbTable))
    /\ [][C9_Turn]_vars

\* C9 witness: Process is through with a set of which it executed one file
\* and passed over another.
C9_Witness ==
    /\ pc = "files" /\ fi = Len(info.Files)
    /\ \E i \in Calls({"Insert"}) : log[i].dir = info.Dir /\ log[i].err = NoErr
    /\ \E f \in Range(info.Files) :
           \A i \in Calls({"Exec"}) : ~(log[i].dir = info.Dir /\ log[i].path = f.Path)

-----------------------------------------------------------------------------
(* C10 *)

\* The positions at which something of the run failed for the first time
\* seen by Migrate or by Process.
Stops == Failures \cup {i \in Calls({"ReadFile", "Exec", "Insert"}) : log[i].err # NoErr}

\* C10: after the first discovery error or failing Process call nothing more
\* is yielded, driver.Process is not called and no file is read, executed or
\* recorded in that run.
C10_StopsAtFirstError ==
    \A i \in Stops :
        \A j \in Calls({"Yield", "Process", "ReadFile", "Exec", "Insert"}) : j <= i

\* C10 witness: Migrate returned after a Process call failed on a file that
\* had files after it in its set and directories after its own.
C10_Witness ==
    /\ pc = "returned"
    /\ \E i \in Calls({"ProcessRet"}) : log[i].err # NoErr
    /\ fi + 1 < Len(info.Files)
    /\ di < Len(dirs)


-----------------------------------------------------------------------------
(* C11 *)

\* s is a subsequence of t: s is t with some elements left out.
RECURSIVE IsSubseq(_, _)
IsSubseq(s, t) ==
    IF s = <<>> THEN TRUE
    ELSE IF t = <<>> THEN FALSE
    ELSE IF Head(s) = Head(t) THEN IsSubseq(Tail(s), Tail(t))
    ELSE IsSubseq(s, Tail(t))

\* The directories of the logged calls of one kind that carry no error, in
\* the order of the calls.
DirsOf(op) ==
    LET calls == SelectSeq(log, LAMBDA e : e.op = op /\ e.err = NoErr)
    IN  [i \in 1..Len(calls) |-> calls[i].dir]

\* The files executed in this run, in the order of their execution.
Executed ==
    LET calls == SelectSeq(log, LAMBDA e : e.op = "Exec" /\ e.err = NoErr)
    IN  [i \in 1..Len(calls) |-> <<calls[i].dir, calls[i].path>>]

\* The total order discovery defines: the directories in their sorted order,
\* each directory's files in the order of its set.
RECURSIVE OrderFrom(_)
OrderFrom(ds) ==
    IF ds = <<>> THEN <<>>
    ELSE LET fs == Files(Head(ds))
         IN  [i \in 1..Len(fs) |-> <<Head(ds), fs[i].Path>>] \o OrderFrom(Tail(ds))

DiscoveryOrder == OrderFrom(dirs)

\* C11: driver.Process is called once for each yielded set, in the order sets
\* are yielded, which is the order of discovery; a run that returns nil has
\* called it for every directory of the discovery; and the files executed, in
\* the order of their execution, are a subsequence of the discovery's total
\* order.
C11_ProcessFollowsDiscoveryOrder ==
    /\ DirsOf("Yield") = SubSeq(dirs, 1, Len(DirsOf("Yield")))
    /\ DirsOf("Process") = SubSeq(DirsOf("Yield"), 1, Len(DirsOf("Process")))
    /\ Len(DirsOf("Yield")) <= Len(DirsOf("Process")) + 1
    /\ ReturnedNil => DirsOf("Process") = dirs
    /\ IsSubseq(Executed, DiscoveryOrder)

\* C11 witness: a run returned nil after Process was called for three sets,
\* files of more than one set were executed, and a file of the discovery was
\* passed over.
C11_Witness ==
    /\ ReturnedNil
    /\ Len(DirsOf("Process")) >= 3
    /\ Cardinality({Executed[i][1] : i \in 1..Len(Executed)}) >= 2
    /\ Executed # DiscoveryOrder

-----------------------------------------------------------------------------
(* C12 *)

\* C12: once the context is cancelled no further driver.Process call is
\* started: every Process call of the run was made before the cancellation.
C12_NoProcessAfterCancel ==
    ~CtxLive => \A i \in Calls({"Process"}) : i <= cancelAt

-----------------------------------------------------------------------------
(* What the discovery claims speak about, read off the discovery trace *)

\* The sets yielded so far, in order, and their directories.
YieldedSets ==
    LET ys == SelectSeq(disc, LAMBDA e : e.op = "Yield" /\ e.err = NoErr)
    IN  [i \in 1..Len(ys) |-> ys[i].info]

YieldedDirs == [i \in 1..Len(YieldedSets) |-> YieldedSets[i].Dir]

\* The directories whose entries were listed so far.
ListedDirs == {e.info.Dir : e \in {x \in Range(disc) : x.op \in {"List", "Scan"}}}

\* The sequence ran to its end: no file system error, no stop by the consumer.
Exhausted == pc = "done" /\ \A e \in Range(disc) : e.err = NoErr

\* A Skip entry as it is matched: without one leading "/".
Stripped(pattern) == TrimPrefix(pattern, <<"/">>)

\* A Skip pattern matches the path.
Matches(path) == \E i \in 1..Len(cfg.Skip) : Match(Stripped(cfg.Skip[i]), path)

-----------------------------------------------------------------------------
(* C13 *)

\* C13: for every tree and every configuration, a discovery that runs to its
\* end yields a set whose Dir is "." for the root.
C13_RootAlwaysYielded ==
    Exhausted => Root \in Range(YieldedDirs)

\* C13, amended: a discovery that runs to its end yields exactly one set for
\* the root, whatever files the root holds, when no Skip pattern matches the
\* path "."; it yields none for the root when a Skip pattern does.
C13_RootYieldedUnlessSkipped ==
    Exhausted =>
        Cardinality({i \in 1..Len(YieldedDirs) : YieldedDirs[i] = Root})
            = IF Matches(Root) THEN 0 ELSE 1

\* C13 witness: a discovery under a non-empty Skip list ran to its end and
\* yielded the root's set with no files in it.
C13_Witness ==
    /\ Exhausted
    /\ cfg.Skip # <<>>
    /\ \E i \in 1..Len(YieldedSets) :
           YieldedSets[i].Dir = Root /\ YieldedSets[i].Files = <<>>

-----------------------------------------------------------------------------
(* C14 *)

\* Order names the directory (a leading "/" of the entry stripped).
Named(d) == \E i \in 1..Len(cfg.Order) : Stripped(cfg.Order[i]) = d

\* The directories that survive the walk's filters.
Surviving == Range(getMigrationDirs(tree, cfg))

\* C14: a discovery that runs to its end yields the surviving directories
\* each once; those Order names come first, in the order Order lists them,
\* and all others follow in ascending lexical order (all of them so when
\* Order is empty).
C14_DirectoryOrder ==
    Exhausted =>
        LET ys == YieldedDirs
            named == SelectSeq(ys, LAMBDA d : Named(d))
            rest == SelectSeq(ys, LAMBDA d : ~Named(d))
        IN  /\ ys = named \o rest
            /\ IsSubseq(named, [i \in 1..Len(cfg.Order) |-> Stripped(cfg.Order[i])])
            /\ \A i, j \in 1..Len(rest) : i < j => Compare(rest[i], rest[j]) < 0
            /\ Range(ys) = Surviving
            /\ Len(ys) = Cardinality(Surviving)

\* C14 witness: a discovery ran to its end and yielded two directories Order
\* names, out of their lexical order, and then two it does not name.
C14_Witness ==
    /\ Exhausted
    /\ \E i, j \in 1..Len(YieldedDirs) :
           /\ i < j
           /\ Named(YieldedDirs[i]) /\ Named(YieldedDirs[j])
           /\ Compare(YieldedDirs[i], YieldedDirs[j]) > 0
    /\ Cardinality({d \in Range(YieldedDirs) : ~Named(d)}) >= 2

-----------------------------------------------------------------------------
(* C15 *)

\* C15: in every yielded set the files ascend by Version, compared as
\* numbers, and files of equal Version ascend strictly by name.
C15_FilesSortedByVersionThenName ==
    \A k \in 1..Len(YieldedSets) :
        LET fs == YieldedSets[k].Files
        IN  \A i, j \in 1..Len(fs) :
                i < j =>
                    \/ fs[i].Version < fs[j].Version
                    \/ /\ fs[i].Version = fs[j].Version
                       /\ Compare(fs[i].Path, fs[j].Path) < 0

\* C15 witness: a yielded set holds two files of equal Version, and a file
\* whose name sorts after the name of a later file of the set (as 2_b does
\* after 10_c).
C15_Witness ==
    \E k \in 1..Len(YieldedSets) :
        LET fs == YieldedSets[k].Files
        IN  /\ \E i, j \in 1..Len(fs) : i < j /\ fs[i].Version = fs[j].Version
            /\ \E i, j \in 1..Len(fs) :
                   i < j /\ Compare(fs[i].Path, fs[j].Path) > 0

-----------------------------------------------------------------------------
(* C16 *)

DigitChars == <<"0", "1", "2", "3", "4", "5", "6", "7", "8", "9">>

\* The decimal digits of a natural number, without leading zeros.
RECURSIVE Decimal(_)
Decimal(n) ==
    IF n < 10 THEN <<DigitChars[n + 1]>>
    ELSE Decimal(n \div 10) \o <<DigitChars[(n % 10) + 1]>>

\* The maximal leading run of digits of a name.
DigitRun(name) ==
    LET k == Cardinality({n \in 1..Len(name) :
                              \A i \in 1..n : name[i] \in Range(DigitChars)})
    IN  SubSeq(name, 1, k)

\* A digit string from its first non-zero digit on.
Significant(ds) ==
    LET z == Cardinality({n \in 1..Len(ds) : \A i \in 1..n : ds[i] = "0"})
    IN  SubSeq(ds, z + 1, Len(ds))

\* n is the value of the non-empty digit string: the string is the decimal
\* digits of n behind any number of zeros.
IsValueOf(n, ds) ==
    IF n = 0 THEN Significant(ds) = <<>> ELSE Significant(ds) = Decimal(n)

\* The value of the digit string is beyond the int range.
BeyondInt(ds) ==
    LET sig == Significant(ds)
    IN  \/ Len(sig) > Len(MaxIntDigits)
        \/ Len(sig) = Len(MaxIntDigits) /\ Compare(sig, MaxIntDigits) > 0

\* The file names extractLeadingNumber was applied to: those of the
\* directories whose set was yielded.
NamesSeen == UNION {tree.files[d] : d \in Range(YieldedDirs)}

\* C16: for every file name, extractLeadingNumber is the value of the name's
\* maximal leading digit run, whatever its leading zeros and its length, and 0
\* for a name without leading digit.
C16_LeadingNumberIsRunValue ==
    \A name \in NamesSeen :
        IF DigitRun(name) = <<>> THEN extractLeadingNumber(name) = 0
        ELSE IsValueOf(extractLeadingNumber(name), DigitRun(name))

\* C16, amended: the same for every name whose digit run has a value within
\* the int range; for a run whose value is beyond it the function gives 0.
C16_LeadingNumberWithinIntRange ==
    \A name \in NamesSeen :
        IF DigitRun(name) = <<>> \/ BeyondInt(DigitRun(name))
        THEN extractLeadingNumber(name) = 0
        ELSE IsValueOf(extractLeadingNumber(name), DigitRun(name))

\* C16 witness: the set of a directory was yielded that holds a name without
\* leading digit, names whose runs differ in leading zeros only, a run of two
\* zeros before its value, and a run beyond the int range.
C16_Witness ==
    /\ {Fx, F1a, F01b, F007b, FHuge} \subseteq NamesSeen
    /\ \E k \in 1..Len(YieldedSets) :
           \E i \in 1..Len(YieldedSets[k].Files) :
               /\ YieldedSets[k].Files[i].Path = F007b
               /\ YieldedSets[k].Files[i].Version = 7

-----------------------------------------------------------------------------
(* C17 *)

\* Two characters that are the same letter in either case.
SameFold(x, y) ==
    x = y \/ {x, y} \in {{"A", "a"}, {"B", "b"}, {"L", "l"}, {"Q", "q"}, {"S", "s"}}

\* The name ends with the extension, letter case aside.
EndsWithFold(name, ext) ==
    /\ Len(name) >= Len(ext)
    /\ \A i \in 1..Len(ext) : SameFold(name[Len(name) - Len(ext) + i], ext[i])

\* The name has no leading digit, or a digit run of value 0, or one that does
\* not parse as an int.
Unversioned(name) ==
    \/ Significant(DigitRun(name)) = <<>>
    \/ BeyondInt(DigitRun(name))

\* C17: every file of every yielded set has a Version of at least 1 that is
\* the value of its name's leading digit run, is a file lying directly in
\* the set's directory, and ends with the configured extension, letter case
\* aside; a file without leading digit, or whose digit run has value 0 or
\* does not parse, is in no set, and its directory's set is yielded all the
\* same.
C17_FilesOfASet ==
    \A k \in 1..Len(YieldedSets) :
        LET dir == YieldedSets[k].Dir
            fs == YieldedSets[k].Files
        IN  /\ \A i \in 1..Len(fs) :
                   /\ fs[i].Version >= 1
                   /\ IsValueOf(fs[i].Version, DigitRun(fs[i].Path))
                   /\ fs[i].Path \in tree.files[dir]
                   /\ cfg.Extension # <<>> => EndsWithFold(fs[i].Path, cfg.Extension)
            /\ \A name \in tree.files[dir] :
                   Unversioned(name) => \A i \in 1..Len(fs) : fs[i].Path # name

\* C17 witness: under an extension filter, the set of a directory was yielded
\* with two files whose extensions differ in case, while the directory also
\* holds a file with a digit run of value 0 and one with another ending; and
\* the set of the root, which holds files without leading digit and with a
\* run that does not parse, and the sub-directory named like a migration
\* file, was yielded too.
C17_Witness ==
    /\ cfg.Extension # <<>>
    /\ tree = Names
    /\ \E k \in 1..Len(YieldedSets) :
           /\ YieldedSets[k].Dir = Dir3s
           /\ {f.Path : f \in Range(YieldedSets[k].Files)} = {F1S, F2s}
    /\ Root \in Range(YieldedDirs)

-----------------------------------------------------------------------------
(* C18 *)

\* Directory x is d or lies beneath d.
Under(x, d) == x = d \/ d = Root \/ HasPrefix(x, d \o <<"/">>)

\* A Skip pattern is the directory's path or the path followed by "/**".
HardSkipped(d) ==
    \E i \in 1..Len(cfg.Skip) :
        \/ Stripped(cfg.Skip[i]) = d
        \/ Stripped(cfg.Skip[i]) = d \o <<"/", "*", "*">>

\* C18: when a Skip pattern is a directory's path d or d/**, neither d nor a
\* directory beneath d is yielded, and the entries of none of them are listed,
\* by the walk or afterwards.
C18_HardSkipPrunes ==
    \A d \in tree.dirs :
        HardSkipped(d) =>
            \A x \in tree.dirs :
                Under(x, d) => x \notin Range(YieldedDirs) /\ x \notin ListedDirs

\* C18 witness: a discovery ran to its end over the three-level tree with a/c
\* hard-skipped and a not; a and two more directories were yielded.
C18_Witness ==
    /\ Exhausted
    /\ tree = Deep
    /\ HardSkipped(DirAC)
    /\ ~HardSkipped(DirA)
    /\ DirA \in Range(YieldedDirs)
    /\ Len(YieldedDirs) >= 3

-----------------------------------------------------------------------------
(* C19 *)

\* The directory is hard-skipped or lies beneath a hard-skipped directory.
Pruned(x) == \E d \in tree.dirs : HardSkipped(d) /\ Under(x, d)

\* The path of a file of a directory, as the patterns see it.
PathOf(dir, name) == IF dir = Root THEN name ELSE dir \o <<"/">> \o name

\* The files of a directory that have a version, end with the configured
\* extension and match no Skip pattern.
PlainFiles(dir) ==
    {name \in tree.files[dir] :
        /\ ~Unversioned(name)
        /\ cfg.Extension # <<>> => EndsWithFold(name, cfg.Extension)
        /\ ~Matches(PathOf(dir, name))}

\* The files of the yielded set of a directory (of the first, should there
\* be more than one).
FilesYieldedFor(dir) ==
    LET k == CHOOSE i \in 1..Len(YieldedSets) :
                 /\ YieldedSets[i].Dir = dir
                 /\ \A j \in 1..(i - 1) : YieldedSets[j].Dir # dir
    IN  {f.Path : f \in Range(YieldedSets[k].Files)}

\* A Skip pattern is d/*.
ChildrenSkipped(d) ==
    \E i \in 1..Len(cfg.Skip) : Stripped(cfg.Skip[i]) = d \o <<"/", "*">>

\* C19: in a discovery that runs to its end, with a Skip pattern d/*: d
\* itself, unless another pattern excludes it, is yielded without any of the
\* files lying directly in it; no directory lying directly in d is yielded;
\* and every directory deeper beneath d that matches no pattern and is not
\* pruned is yielded with its files.  In general, a directory that matches a
\* pattern without being pruned is not yielded, and yet its entries are
\* listed by the walk.
C19_SoftSkip ==
    Exhausted =>
        /\ \A d \in tree.dirs :
               ChildrenSkipped(d) =>
                   /\ (~Matches(d) /\ ~Pruned(d)) =>
                          d \in Range(YieldedDirs) /\ FilesYieldedFor(d) = {}
                   /\ \A x \in tree.dirs \ {Root} :
                          Parent(x) = d => x \notin Range(YieldedDirs)
                   /\ \A x \in tree.dirs \ {Root} :
                          (Under(x, d) /\ x # d /\ Parent(x) # d
                              /\ ~Matches(x) /\ ~Pruned(x)) =>
                              /\ x \in Range(YieldedDirs)
                              /\ FilesYieldedFor(x) = PlainFiles(x)
        /\ \A x \in tree.dirs :
               (Matches(x) /\ ~Pruned(x)) =>
                   x \notin Range(YieldedDirs) /\ x \in ListedDirs

\* C19 witness: a discovery over the three-level tree ran to its end with the
\* pattern a/*: a was yielded without files, a/c was not yielded, and a/c/b
\* was yielded with its two files.
C19_Witness ==
    /\ Exhausted
    /\ tree = Deep
    /\ ChildrenSkipped(DirA)
    /\ DirA \in Range(YieldedDirs) /\ FilesYieldedFor(DirA) = {}
    /\ DirAC \notin Range(YieldedDirs)
    /\ DirACB \in Range(YieldedDirs) /\ FilesYieldedFor(DirACB) = {F1a, F3a}

-----------------------------------------------------------------------------
(* C20 *)

\* The files yielded so far, each with the directory of its set.
YieldedFiles ==
    UNION {{<<YieldedSets[k].Dir, f.Path>> : f \in Range(YieldedSets[k].Files)} :
              k \in 1..Len(YieldedSets)}

\* The files of a directory that would be migration files were nothing
\* skipped: with a version, ending with the configured extension.
Candidates(dir) ==
    {name \in tree.files[dir] :
        /\ ~Unversioned(name)
        /\ cfg.Extension # <<>> => EndsWithFold(name, cfg.Extension)}

\* What a discovery over the tree finds under another configuration.
DirsFound(m) == Range(getMigrationDirs(tree, m))

FilesFound(m) ==
    UNION {{<<d, f.Path>> : f \in Range(getMigrationFiles(tree, m, d))} :
              d \in DirsFound(m)}

\* The configuration without its i-th Skip pattern.
WithoutPattern(i) ==
    [cfg EXCEPT !.Skip = SubSeq(cfg.Skip, 1, i - 1)
                         \o SubSeq(cfg.Skip, i + 1, Len(cfg.Skip))]

\* Nothing is yielded that the configuration with one pattern less would not
\* yield.
SkipOnlyRemoves ==
    \A i \in 1..Len(cfg.Skip) :
        /\ Range(YieldedDirs) \subseteq DirsFound(WithoutPattern(i))
        /\ YieldedFiles \subseteq FilesFound(WithoutPattern(i))

\* C20: in a discovery that runs to its end, a directory is yielded exactly
\* if it matches no Skip pattern and neither is nor lies beneath a
\* hard-skipped directory, and a migration file is yielded exactly if its
\* path matches no Skip pattern and it lies beneath no hard-skipped
\* directory; and a pattern more in Skip makes nothing appear.
C20_YieldedIffUnmatched ==
    Exhausted =>
        /\ \A x \in tree.dirs :
               /\ x \in Range(YieldedDirs) <=> (~Matches(x) /\ ~Pruned(x))
               /\ \A name \in Candidates(x) :
                      <<x, name>> \in YieldedFiles
                          <=> (~Matches(PathOf(x, name)) /\ ~Pruned(x))
        /\ SkipOnlyRemoves

\* C20, amended: a directory as above; a migration file is yielded exactly if
\* the set of its directory is yielded and its own path matches no Skip
\* pattern; and a pattern more in Skip makes nothing appear.
C20_SkipUnion ==
    Exhausted =>
        /\ \A x \in tree.dirs :
               /\ x \in Range(YieldedDirs) <=> (~Matches(x) /\ ~Pruned(x))
               /\ \A name \in Candidates(x) :
                      <<x, name>> \in YieldedFiles
                          <=> /\ ~Matches(x) /\ ~Pruned(x)
                              /\ ~Matches(PathOf(x, name))
        /\ SkipOnlyRemoves

\* C20 witness: a discovery under two different patterns ran to its end; a
\* directory that matches a pattern without being pruned holds a migration
\* file whose path matches none, a yielded directory holds a migration file
\* whose path matches one, and some file was yielded.
C20_Witness ==
    /\ Exhausted
    /\ Len(cfg.Skip) = 2 /\ cfg.Skip[1] # cfg.Skip[2]
    /\ \E x \in tree.dirs :
           /\ Matches(x) /\ ~Pruned(x)
           /\ \E name \in Candidates(x) : ~Matches(PathOf(x, name))
    /\ \E x \in Range(YieldedDirs) :
           \E name \in Candidates(x) : Matches(PathOf(x, name))
    /\ YieldedFiles # {}

-----------------------------------------------------------------------------
(* C21 *)

\* How many sets were yielded for the directory.
SetsFor(x) == Cardinality({k \in 1..Len(YieldedDirs) : YieldedDirs[k] = x})

\* C21: a discovery that runs to its end has yielded one set, and only one,
\* for every directory that matches no Skip pattern and neither is nor lies
\* beneath a hard-skipped directory, whether or not the set has files; it has
\* yielded none for any other directory, and none for a path that is no
\* directory of the tree.
C21_OneSetPerSurvivingDirectory ==
    Exhausted =>
        /\ \A x \in tree.dirs :
               SetsFor(x) = IF ~Matches(x) /\ ~Pruned(x) THEN 1 ELSE 0
        /\ Range(YieldedDirs) \subseteq tree.dirs

\* C21 witness: a discovery ran to its end and yielded a set without files
\* and two sets with files, while one directory was left out as matching a
\* pattern without being pruned.
C21_Witness ==
    /\ Exhausted
    /\ \E k \in 1..Len(YieldedSets) : YieldedSets[k].Files = <<>>
    /\ Cardinality({k \in 1..Len(YieldedSets) : YieldedSets[k].Files # <<>>}) >= 2
    /\ \E x \in tree.dirs : Matches(x) /\ ~Pruned(x)

-----------------------------------------------------------------------------
(* C22 *)

\* C22: an error met while listing a directory is yielded with a nil set and
\* is the last thing the discovery yields: nothing is yielded after it,
\* whatever the consumer answers.
C22_ListingErrorIsTerminal ==
    \A i \in 1..Len(disc) :
        (disc[i].op = "Yield" /\ disc[i].err # NoErr) =>
            /\ disc[i].info = NoInfo
            /\ \A j \in (i + 1)..Len(disc) : disc[j].op # "Yield"

-----------------------------------------------------------------------------
(* C23 *)

\* The number of elements, sets or errors, yielded so far.
Elements == Cardinality({i \in 1..Len(disc) : disc[i].op = "Yield"})

\* The directories whose file entries getMigrationFiles listed or tried to
\* list so far.
Scans ==
    {e.info.Dir : e \in {x \in Range(disc) : x.op = "Scan"}}
    \cup {e.err.path : e \in {x \in Range(disc) :
                                 x.op = "Yield" /\ x.err.kind = "readdir"}}

-----------------------------------------------------------------------------
(* C24 *)

\* The error names the file: it carries the file's name, alone or behind the
\* path of its directory.
NamesFile(e, dir, name) == e.path = name \/ e.path = dir \o <<"/">> \o name

\* C24: whenever Process fails at a file, in reading it, in executing it or
\* in writing its record, the error Process returns names that file.
C24_ProcessErrorNamesFile ==
    \A i \in Calls({"ProcessRet"}) :
        (/\ log[i].err # NoErr
         /\ log[i - 1].op \in {"ReadFile", "Exec", "Insert"}
         /\ log[i - 1].err # NoErr) =>
            NamesFile(log[i].err, log[i - 1].dir, log[i - 1].path)

====
